---- MODULE Spec2Model ----
(***************************************************************************)
(* Model of the gamm swap keeper (x/gamm/keeper/swap.go) and of the        *)
(* balancer pool model (x/gamm/pool-models/balancer/amm.go).               *)
(*                                                                         *)
(* sdk.Int is an unbounded integer and is modelled by Int.  sdk.Dec is a   *)
(* fixed-point decimal: an integer count of 10^-Precision units.  The SDK  *)
(* uses 18 fractional digits; the model keeps the SDK's rounding rules     *)
(* (banker's rounding in Mul and Quo, truncation in QuoInt and             *)
(* TruncateInt) on a narrower fraction, Precision digits, so that every    *)
(* intermediate product stays inside TLC's 32-bit integers.                *)
(***************************************************************************)
EXTENDS Integers, Sequences, FiniteSets, TLC

\* ------------------------------------------------------------------ bounds
Precision == 3      \* fractional digits of the modelled sdk.Dec
MaxBal == 3      \* cap on an asset balance (guards of the actions)
MaxAmt == 2      \* largest token amount of a request
MaxShares == 5      \* largest total share supply / share amount of a request

\* ------------------------------------------------------- sdk.Dec arithmetic
RECURSIVE Pow10(_)
Pow10(n) == IF n = 0 THEN 1 ELSE 10 * Pow10(n - 1)

\* sdk.OneDec(): the fixed-point unit.
OneDec == Pow10(Precision)

Abs(x) == IF x < 0 THEN -x ELSE x
Sgn(x) == IF x < 0 THEN -1 ELSE 1

\* sdk.Int.ToDec
ToDec(i) == i * OneDec

\* chopPrecisionAndRound of the non-negative value q * OneDec + rem
\* (0 <= rem < OneDec): banker's rounding to the nearest unit.
chopPrecisionAndRound(q, rem) ==
    IF 2 * rem < OneDec THEN q
    ELSE IF 2 * rem > OneDec THEN q + 1
    ELSE IF q % 2 = 0 THEN q ELSE q + 1

\* chopPrecisionAndRound of q * OneDec + t, for any t >= 0.
ChopSum(q, t) == chopPrecisionAndRound(q + (t \div OneDec), t % OneDec)

\* sdk.Dec.Mul: the exact product, chopped and rounded.  The product of the
\* absolute values is formed from the integer and the fractional part of the
\* second factor.
MulAbs(x, y) == ChopSum(x * (y \div OneDec), x * (y % OneDec))
DecMul(a, b) == Sgn(a) * Sgn(b) * MulAbs(Abs(a), Abs(b))

\* sdk.Dec.Quo (b # 0): a * 10^(2*Precision) / b truncated, then chopped and
\* rounded.  Long division: qx is the integer quotient, n the remainder
\* scaled by OneDec.
QuoDigits(qx, n, y) ==
    chopPrecisionAndRound(qx * OneDec + (n \div y), ((n % y) * OneDec) \div y)
QuoAbs(x, y) == QuoDigits(x \div y, (x % y) * OneDec, y)
DecQuo(a, b) == Sgn(a) * Sgn(b) * QuoAbs(Abs(a), Abs(b))

\* big.Int.Quo: integer division truncated toward zero (b # 0).
IntQuo(a, b) == Sgn(a) * Sgn(b) * (Abs(a) \div Abs(b))

\* sdk.Dec.QuoInt (i # 0): truncated.
QuoInt(d, i) == IntQuo(d, i)

\* sdk.Dec.MulInt: exact.
MulInt(d, i) == d * i

\* sdk.Dec.TruncateInt: truncation toward zero.
TruncateInt(d) == IntQuo(d, OneDec)

\* sdk.Dec.TruncateDec
TruncateDec(d) == ToDec(TruncateInt(d))

\* sdk.Dec.Power: square-and-multiply with a rounded Mul at every step.
RECURSIVE PowerLoop(_, _, _)
PowerLoop(d, tmp, i) ==
    IF i > 1
    THEN PowerLoop(DecMul(d, d), IF i % 2 # 0 THEN DecMul(tmp, d) ELSE tmp, i \div 2)
    ELSE DecMul(d, tmp)

Power(d, power) == IF power = 0 THEN OneDec ELSE PowerLoop(d, OneDec, power)

\* ------------------------------------------------------------ osmomath.Pow
\* Stopping threshold of the series, in units of 10^-Precision.
powPrecision == 10

\* The binomial series of base^a around 1, for 0 < a < 1, x = |base - 1|:
\* term_i = term_(i-1) * |a - (i-1)| * x / i, added or subtracted by the
\* sign it carries, until a term falls below powPrecision or is zero.
RECURSIVE PowApproxLoop(_, _, _, _, _, _, _)
PowApproxTerm(a, x, xneg, i, term, sum, negative) ==
    IF term = 0 THEN sum
    ELSE PowApproxLoop(a, x, xneg, i + 1, term,
                       IF negative THEN sum - term ELSE sum + term, negative)

PowApproxLoop(a, x, xneg, i, term, sum, negative) ==
    IF term < powPrecision THEN sum
    ELSE PowApproxTerm(a, x, xneg, i,
             DecQuo(DecMul(term, DecMul(Abs(a - (ToDec(i) - OneDec)), x)), ToDec(i)),
             sum,
             (negative # xneg) # (a < ToDec(i) - OneDec))

PowApprox(base, exp) ==
    PowApproxLoop(exp, Abs(base - OneDec), base < OneDec, 1, OneDec, OneDec, FALSE)

\* The power is defined for 0 < base < 2 only; outside it the call faults.
PowPanics(base) == base <= 0 \/ base >= 2 * OneDec

\* base^exp: the integer part of the exponent by Power, the fractional part
\* by the series.
PowParts(base, integer, fractional) ==
    IF fractional = 0 THEN Power(base, TruncateInt(integer))
    ELSE DecMul(Power(base, TruncateInt(integer)), PowApprox(base, fractional))

Pow(base, exp) == PowParts(base, TruncateDec(exp), exp - TruncateDec(exp))

\* ------------------------------------------------------------ the pool
\* A pool: bal and weight map the pool's denominations to sdk.Int values,
\* totalShares is the share supply, swapFee an sdk.Dec.
DenomOrder == <<"A", "B", "C">>
ForeignDenom == "X"

PoolDenoms(p) == DOMAIN p.bal
NumAssets(p) == Cardinality(PoolDenoms(p))

RECURSIVE SumWeights(_, _)
SumWeights(p, ds) ==
    IF ds = {} THEN 0
    ELSE LET d == CHOOSE e \in ds : TRUE IN p.weight[d] + SumWeights(p, ds \ {d})

GetTotalWeight(p) == SumWeights(p, PoolDenoms(p))
GetTotalShares(p) == p.totalShares
GetPoolSwapFee(p) == p.swapFee

\* sdk.Coin
Coin(d, a) == [denom |-> d, amount |-> a]

\* errors (nil is the empty string)
nil                  == ""
Panic                == "panic"
ErrSameDenom         == "cannot trade same denomination in and out"
ErrDenomNotFound     == "pool asset not found"
ErrPoolLocked        == "ErrPoolLocked"
ErrInvalidMathApprox == "ErrInvalidMathApprox"
ErrLimitMinAmount    == "ErrLimitMinAmount"
ErrLimitMaxAmount    == "ErrLimitMaxAmount"
ErrTooManyTokensOut  == "ErrTooManyTokensOut"
ErrTooManySharesOut  == "too many shares out"
ErrJoinShape         == "balancer pool only supports LP'ing with one asset, or all assets in pool"
ErrNotImplemented    == "TODO: Implement"
ErrCoinsLength       == "expected one coin"
ErrSendCoins         == "SendCoins failed"

\* -------------------------------------------------- the invariant solver
\* balanceYDelta = balanceY * (1 - (balanceXBefore/balanceXAfter)^(weightX/weightY)):
\* weightRatio = tokenWeightFixed / tokenWeightUnknown,
\* y = tokenBalanceFixedBefore / tokenBalanceFixedAfter, foo = y^weightRatio,
\* multiplier = 1 - foo.
solveConstantFunctionInvariant(tokenBalanceFixedBefore, tokenBalanceFixedAfter, tokenWeightFixed, tokenBalanceUnknownBefore, tokenWeightUnknown) ==
    DecMul(tokenBalanceUnknownBefore,
           OneDec - Pow(DecQuo(tokenBalanceFixedBefore, tokenBalanceFixedAfter),
                        DecQuo(tokenWeightFixed, tokenWeightUnknown)))

\* The inputs on which the solver faults: a division by zero in one of the
\* two Quo calls, or a base outside the domain of Pow.
solvePanics(tokenBalanceFixedBefore, tokenBalanceFixedAfter, tokenWeightUnknown) ==
    \/ tokenWeightUnknown = 0
    \/ tokenBalanceFixedAfter = 0
    \/ PowPanics(DecQuo(tokenBalanceFixedBefore, tokenBalanceFixedAfter))

\* ------------------------------------------------------ swap calculators
\* tokenAmountInAfterFee = tokenIn * (1 - swapFee)
TokenAmountInAfterFee(amount, swapFee) == DecMul(ToDec(amount), OneDec - swapFee)

\* Token out (sdk.Dec) for tokenIn, fee deducted on the in asset.
CalcOutAmtGivenIn(p, tokenIn, tokenOutDenom, swapFee) ==
    solveConstantFunctionInvariant(
        ToDec(p.bal[tokenIn.denom]),
        ToDec(p.bal[tokenIn.denom]) + TokenAmountInAfterFee(tokenIn.amount, swapFee),
        ToDec(p.weight[tokenIn.denom]),
        ToDec(p.bal[tokenOutDenom]), ToDec(p.weight[tokenOutDenom]))

CalcOutAmtGivenInPanics(p, tokenIn, tokenOutDenom, swapFee) ==
    solvePanics(ToDec(p.bal[tokenIn.denom]),
                ToDec(p.bal[tokenIn.denom]) + TokenAmountInAfterFee(tokenIn.amount, swapFee),
                ToDec(p.weight[tokenOutDenom]))

\* Token in (sdk.Dec) for tokenOut: the solver's delta of the in balance,
\* with the sign the solver gives it, divided by (1 - swapFee).
CalcInAmtGivenOut(p, tokenOut, tokenInDenom, swapFee) ==
    DecQuo(solveConstantFunctionInvariant(
               ToDec(p.bal[tokenOut.denom]),
               ToDec(p.bal[tokenOut.denom]) - ToDec(tokenOut.amount),
               ToDec(p.weight[tokenOut.denom]),
               ToDec(p.bal[tokenInDenom]), ToDec(p.weight[tokenInDenom])),
           OneDec - swapFee)

CalcInAmtGivenOutPanics(p, tokenOut, tokenInDenom, swapFee) ==
    \/ solvePanics(ToDec(p.bal[tokenOut.denom]),
                   ToDec(p.bal[tokenOut.denom]) - ToDec(tokenOut.amount),
                   ToDec(p.weight[tokenInDenom]))
    \/ OneDec - swapFee = 0

\* ------------------------------------------------------ pool bookkeeping
\* Pool.GetPoolAsset: the asset of a denomination, by value.
HasPoolAsset(p, d) == d \in PoolDenoms(p)
GetPoolAsset(p, d) == [denom |-> d, amount |-> p.bal[d], weight |-> p.weight[d]]

\* Pool.UpdatePoolAssetBalance: sets the balance of one asset.
UpdatePoolAssetBalance(p, coin) == [p EXCEPT !.bal[coin.denom] = coin.amount]

\* Pool.AddPoolAssetBalance / Pool.SubPoolAssetBalance: the balance of the
\* coin's asset plus / minus the coin's amount.
AddPoolAssetBalance(p, coin) == [p EXCEPT !.bal[coin.denom] = @ + coin.amount]
SubPoolAssetBalance(p, coin) == [p EXCEPT !.bal[coin.denom] = @ - coin.amount]

\* A variant of NewCoinPanics: a coin constructor that validates nothing.
NewCoinNeverPanics(amount) == FALSE

\* sdk.NewCoin validates the coin it builds and panics on a negative amount.
NewCoinPanics(amount) == amount < 0

\* A variant of NewCoinsPanics: a coin-set constructor that validates nothing.
NewCoinsNeverPanic(c1, c2) == FALSE

\* sdk.NewCoins drops the zero coins, sorts, validates and panics on a
\* negative amount or on a denomination given twice.
NewCoinsPanics(c1, c2) ==
    \/ c1.amount < 0
    \/ c2.amount < 0
    \/ (c1.denom = c2.denom /\ c1.amount # 0 /\ c2.amount # 0)

\* Pool.UpdatePoolAssetBalances(sdk.NewCoins(c1, c2)): the balances of the
\* coins left in the set are set; a coin of amount zero is no longer in it.
UpdateIfNonZero(p, c) == IF c.amount # 0 THEN UpdatePoolAssetBalance(p, c) ELSE p
UpdatePoolAssetBalances(p, c1, c2) == UpdateIfNonZero(UpdateIfNonZero(p, c1), c2)

\* ----------------------------------------------------------- the keeper
\* The collaborator calls of one operation, in the order they were made.
CallSetPool      == "SetPool"
CallSendIn       == "SendCoins(sender, pool, tokenIn)"
CallSendOut      == "SendCoins(pool, sender, tokenOut)"
CallSwapEvent    == "createSwapEvent"
CallAfterSwap    == "hooks.AfterSwap"
CallLiquidityInc == "RecordTotalLiquidityIncrease"
CallLiquidityDec == "RecordTotalLiquidityDecrease"

\* What the bank does with the two transfers of an operation.
BankOutcomes == {"ok", "inFails", "outFails"}

\* The outcome of a keeper operation: the error returned, the amount
\* returned, the pool repository after it, and the collaborator calls.
KeeperResult(err, ret, st, calls) ==
    [err |-> err, ret |-> ret, store |-> st, calls |-> calls]

\* Keeper.getPoolAndInOutAssets: the pool loaded from the repository and the
\* two assets, by value; an error when a denomination is not in the pool.
getPoolAndInOutAssets(st, tokenInDenom, tokenOutDenom) ==
    IF HasPoolAsset(st, tokenInDenom) /\ HasPoolAsset(st, tokenOutDenom)
    THEN [err |-> nil, pool |-> st,
          inPoolAsset |-> GetPoolAsset(st, tokenInDenom),
          outPoolAsset |-> GetPoolAsset(st, tokenOutDenom)]
    ELSE [err |-> ErrDenomNotFound, pool |-> st,
          inPoolAsset |-> Coin(tokenInDenom, 0), outPoolAsset |-> Coin(tokenOutDenom, 0)]

\* The pool after the two local assets were assigned their post-swap amounts,
\* were the assets references into the pool.
PoolAfterStagingAliased(pool, inPoolAsset, outPoolAsset) ==
    [pool EXCEPT !.bal[inPoolAsset.denom] = inPoolAsset.amount,
                 !.bal[outPoolAsset.denom] = outPoolAsset.amount]

\* The pool after the two local assets were assigned their post-swap
\* amounts: the assets are copies, the pool is as it was loaded.
PoolAfterStaging(pool, inPoolAsset, outPoolAsset) == pool

\* A variant of CallsOfSwap: the hook is called as soon as the pool is
\* stored, before the transfers.
CallsOfSwapHookFirst(bank) ==
    IF bank = "inFails" THEN <<CallSetPool, CallAfterSwap, CallSendIn>>
    ELSE IF bank = "outFails" THEN <<CallSetPool, CallAfterSwap, CallSendIn, CallSendOut>>
    ELSE <<CallSetPool, CallAfterSwap, CallSendIn, CallSendOut, CallSwapEvent,
           CallLiquidityInc, CallLiquidityDec>>

\* The transfers, the event, the hook and the liquidity records of
\* updatePoolForSwap, after the pool was stored.
CallsOfSwap(bank) ==
    IF bank = "inFails" THEN <<CallSetPool, CallSendIn>>
    ELSE IF bank = "outFails" THEN <<CallSetPool, CallSendIn, CallSendOut>>
    ELSE <<CallSetPool, CallSendIn, CallSendOut, CallSwapEvent,
           CallAfterSwap, CallLiquidityInc, CallLiquidityDec>>

\* The pool repository after SetPool(pool).
SetPool(st, pool) == pool

\* Keeper.updatePoolForSwap: the balances are updated, the pool is stored,
\* then the two transfers are made, then the event, the hook and the
\* liquidity records.  st is the repository before the call, ret the amount
\* the calling swap returns when this succeeds.
updatePoolForSwap(st, pool, tokenIn, tokenOut, ret, bank) ==
    KeeperResult(IF bank = "ok" THEN nil ELSE ErrSendCoins,
                 IF bank = "ok" THEN ret ELSE 0,
                 SetPool(st, SubPoolAssetBalance(AddPoolAssetBalance(pool, tokenIn), tokenOut)),
                 CallsOfSwap(bank))

\* A variant of swapExactAmountInCommit: the minimum is compared only after
\* the pool was updated and stored.
swapExactAmountInCommitLate(st, got, tokenIn, tokenOutDenom, tokenOutAmount, tokenOutMinAmount, bank) ==
    IF tokenOutAmount <= 0 THEN KeeperResult(ErrInvalidMathApprox, 0, st, <<>>)
    ELSE IF tokenOutAmount < tokenOutMinAmount
    THEN KeeperResult(ErrLimitMinAmount, 0,
             SetPool(st, SubPoolAssetBalance(AddPoolAssetBalance(got.pool, tokenIn),
                                             Coin(tokenOutDenom, tokenOutAmount))),
             <<CallSetPool>>)
    ELSE updatePoolForSwap(st, got.pool, tokenIn, Coin(tokenOutDenom, tokenOutAmount),
                           tokenOutAmount, bank)

\* A variant of swapExactAmountInCommit: the minimum is not compared at all.
swapExactAmountInCommitNoMin(st, got, tokenIn, tokenOutDenom, tokenOutAmount, tokenOutMinAmount, bank) ==
    IF tokenOutAmount <= 0 THEN KeeperResult(ErrInvalidMathApprox, 0, st, <<>>)
    ELSE updatePoolForSwap(st, got.pool, tokenIn, Coin(tokenOutDenom, tokenOutAmount),
                           tokenOutAmount, bank)

\* Keeper.SwapExactAmountIn, from the checks of the computed amount on.
swapExactAmountInCommit(st, got, tokenIn, tokenOutDenom, tokenOutAmount, tokenOutMinAmount, bank) ==
    IF tokenOutAmount <= 0 THEN KeeperResult(ErrInvalidMathApprox, 0, st, <<>>)
    ELSE IF tokenOutAmount < tokenOutMinAmount
    THEN KeeperResult(ErrLimitMinAmount, 0, st, <<>>)
    ELSE updatePoolForSwap(
             st,
             PoolAfterStaging(got.pool,
                 [got.inPoolAsset EXCEPT !.amount = @ + tokenIn.amount],
                 [got.outPoolAsset EXCEPT !.amount = @ - tokenOutAmount]),
             tokenIn, Coin(tokenOutDenom, tokenOutAmount), tokenOutAmount, bank)

\* Keeper.SwapExactAmountIn, once the pool and the assets are loaded.
swapExactAmountInLoaded(st, got, active, tokenIn, tokenOutDenom, tokenOutMinAmount, bank) ==
    IF got.err # nil THEN KeeperResult(got.err, 0, st, <<>>)
    ELSE IF ~active THEN KeeperResult(ErrPoolLocked, 0, st, <<>>)
    ELSE IF CalcOutAmtGivenInPanics(got.pool, tokenIn, tokenOutDenom, GetPoolSwapFee(got.pool))
    THEN KeeperResult(Panic, 0, st, <<>>)
    ELSE swapExactAmountInCommit(st, got, tokenIn, tokenOutDenom,
             TruncateInt(CalcOutAmtGivenIn(got.pool, tokenIn, tokenOutDenom,
                                           GetPoolSwapFee(got.pool))),
             tokenOutMinAmount, bank)

\* A variant of SwapExactAmountIn: the pool is loaded before the two
\* denominations are compared.
SwapExactAmountInLoadsFirst(st, active, tokenIn, tokenOutDenom, tokenOutMinAmount, bank) ==
    IF getPoolAndInOutAssets(st, tokenIn.denom, tokenOutDenom).err # nil
    THEN KeeperResult(ErrDenomNotFound, 0, st, <<>>)
    ELSE IF tokenIn.denom = tokenOutDenom
    THEN KeeperResult(ErrSameDenom, 0, st, <<>>)
    ELSE swapExactAmountInLoaded(st, getPoolAndInOutAssets(st, tokenIn.denom, tokenOutDenom),
                                 active, tokenIn, tokenOutDenom, tokenOutMinAmount, bank)

\* Keeper.SwapExactAmountIn
SwapExactAmountIn(st, active, tokenIn, tokenOutDenom, tokenOutMinAmount, bank) ==
    IF tokenIn.denom = tokenOutDenom
    THEN KeeperResult(ErrSameDenom, 0, st, <<>>)
    ELSE swapExactAmountInLoaded(st, getPoolAndInOutAssets(st, tokenIn.denom, tokenOutDenom),
                                 active, tokenIn, tokenOutDenom, tokenOutMinAmount, bank)

\* Keeper.SwapExactAmountOut, from the checks of the computed amount on.
swapExactAmountOutCommit(st, got, tokenInDenom, tokenInAmount, tokenInMaxAmount, tokenOut, bank) ==
    IF tokenInAmount <= 0 THEN KeeperResult(ErrInvalidMathApprox, 0, st, <<>>)
    ELSE IF tokenInAmount > tokenInMaxAmount
    THEN KeeperResult(ErrLimitMaxAmount, 0, st, <<>>)
    ELSE updatePoolForSwap(
             st,
             PoolAfterStaging(got.pool,
                 [got.inPoolAsset EXCEPT !.amount = @ + tokenInAmount],
                 [got.outPoolAsset EXCEPT !.amount = @ - tokenOut.amount]),
             Coin(tokenInDenom, tokenInAmount), tokenOut, tokenInAmount, bank)

\* A variant of swapExactAmountOutLoaded: only an amount out above the
\* out-balance is rejected.
swapExactAmountOutLoadedLax(st, got, active, tokenInDenom, tokenInMaxAmount, tokenOut, bank) ==
    IF got.err # nil THEN KeeperResult(got.err, 0, st, <<>>)
    ELSE IF ~active THEN KeeperResult(ErrPoolLocked, 0, st, <<>>)
    ELSE IF tokenOut.amount > got.outPoolAsset.amount
    THEN KeeperResult(ErrTooManyTokensOut, 0, st, <<>>)
    ELSE IF CalcInAmtGivenOutPanics(got.pool, tokenOut, tokenInDenom, GetPoolSwapFee(got.pool))
    THEN KeeperResult(Panic, 0, st, <<>>)
    ELSE swapExactAmountOutCommit(st, got, tokenInDenom,
             TruncateInt(CalcInAmtGivenOut(got.pool, tokenOut, tokenInDenom,
                                           GetPoolSwapFee(got.pool))),
             tokenInMaxAmount, tokenOut, bank)

\* Keeper.SwapExactAmountOut, once the pool and the assets are loaded.
swapExactAmountOutLoaded(st, got, active, tokenInDenom, tokenInMaxAmount, tokenOut, bank) ==
    IF got.err # nil THEN KeeperResult(got.err, 0, st, <<>>)
    ELSE IF ~active THEN KeeperResult(ErrPoolLocked, 0, st, <<>>)
    ELSE IF tokenOut.amount >= got.outPoolAsset.amount
    THEN KeeperResult(ErrTooManyTokensOut, 0, st, <<>>)
    ELSE IF CalcInAmtGivenOutPanics(got.pool, tokenOut, tokenInDenom, GetPoolSwapFee(got.pool))
    THEN KeeperResult(Panic, 0, st, <<>>)
    ELSE swapExactAmountOutCommit(st, got, tokenInDenom,
             TruncateInt(CalcInAmtGivenOut(got.pool, tokenOut, tokenInDenom,
                                           GetPoolSwapFee(got.pool))),
             tokenInMaxAmount, tokenOut, bank)

\* Keeper.SwapExactAmountOut
SwapExactAmountOut(st, active, tokenInDenom, tokenInMaxAmount, tokenOut, bank) ==
    IF tokenInDenom = tokenOut.denom
    THEN KeeperResult(ErrSameDenom, 0, st, <<>>)
    ELSE swapExactAmountOutLoaded(st, getPoolAndInOutAssets(st, tokenInDenom, tokenOut.denom),
                                  active, tokenInDenom, tokenInMaxAmount, tokenOut, bank)

\* ------------------------------------------------- the balancer pool model
\* The outcome of a pool method: the error returned, the amount returned,
\* the receiver after the call and the coins returned.
NoCoins(p) == [d \in PoolDenoms(p) |-> 0]
PoolResult(err, ret, p, exited) == [err |-> err, ret |-> ret, p |-> p, exited |-> exited]

\* Pool.ApplySwap, once the two assets are found: inToken and outToken are
\* the assets' tokens with their new amounts.
applySwapUpdate(p, inToken, outToken) ==
    IF NewCoinsPanics(inToken, outToken)
    THEN PoolResult(Panic, 0, p, NoCoins(p))
    ELSE PoolResult(nil, 0, UpdatePoolAssetBalances(p, inToken, outToken), NoCoins(p))

\* Pool.ApplySwap
ApplySwap(p, tokensIn, tokensOut) ==
    IF Len(tokensIn) # 1 \/ Len(tokensOut) # 1
    THEN PoolResult(ErrCoinsLength, 0, p, NoCoins(p))
    ELSE IF ~HasPoolAsset(p, tokensIn[1].denom) \/ ~HasPoolAsset(p, tokensOut[1].denom)
    THEN PoolResult(ErrDenomNotFound, 0, p, NoCoins(p))
    ELSE applySwapUpdate(p,
             Coin(tokensIn[1].denom, p.bal[tokensIn[1].denom] + tokensIn[1].amount),
             Coin(tokensOut[1].denom, p.bal[tokensOut[1].denom] - tokensOut[1].amount))

\* effectiveSwapFee = (1 - normalizedTokenWeightIn) * swapFee;
\* tokenAmountInAfterFee = tokenAmountIn * (1 - effectiveSwapFee)
JoinAmountInAfterFee(normalizedTokenWeightIn, tokenAmountIn, swapFee) ==
    DecMul(tokenAmountIn, OneDec - DecMul(OneDec - normalizedTokenWeightIn, swapFee))

\* calcPoolOutGivenSingleIn
calcPoolOutGivenSingleIn(tokenBalanceIn, normalizedTokenWeightIn, poolShares, tokenAmountIn, swapFee) ==
    -solveConstantFunctionInvariant(
        tokenBalanceIn + JoinAmountInAfterFee(normalizedTokenWeightIn, tokenAmountIn, swapFee),
        tokenBalanceIn, normalizedTokenWeightIn, poolShares, OneDec)

calcPoolOutGivenSingleInPanics(tokenBalanceIn, normalizedTokenWeightIn, tokenAmountIn, swapFee) ==
    solvePanics(
        tokenBalanceIn + JoinAmountInAfterFee(normalizedTokenWeightIn, tokenAmountIn, swapFee),
        tokenBalanceIn, OneDec)

\* Pool.singleAssetJoin, once the asset is found.
singleAssetJoinShares(p, tokenInPoolAsset, normalizedWeight, tokenIn, swapFee) ==
    IF calcPoolOutGivenSingleInPanics(ToDec(tokenInPoolAsset.amount), normalizedWeight,
                                      ToDec(tokenIn.amount), swapFee)
    THEN PoolResult(Panic, 0, p, NoCoins(p))
    ELSE PoolResult(nil,
             TruncateInt(calcPoolOutGivenSingleIn(
                 ToDec(tokenInPoolAsset.amount), normalizedWeight,
                 ToDec(GetTotalShares(p)), ToDec(tokenIn.amount), swapFee)),
             p, NoCoins(p))

\* Pool.singleAssetJoin: the shares computed for the deposit; the receiver
\* is not written.
singleAssetJoin(p, tokenIn, swapFee) ==
    IF ~HasPoolAsset(p, tokenIn.denom)
    THEN PoolResult(ErrDenomNotFound, 0, p, NoCoins(p))
    ELSE singleAssetJoinShares(p, GetPoolAsset(p, tokenIn.denom),
             DecQuo(ToDec(p.weight[tokenIn.denom]), ToDec(GetTotalWeight(p))),
             tokenIn, swapFee)

\* A variant of JoinPool: the number of coins is compared with the number of
\* assets before the single-coin case is looked at.
JoinPoolShapeFirst(p, tokensIn, swapFee) ==
    IF Len(tokensIn) # NumAssets(p) THEN PoolResult(ErrJoinShape, 0, p, NoCoins(p))
    ELSE IF Len(tokensIn) = 1 THEN singleAssetJoin(p, tokensIn[1], swapFee)
    ELSE PoolResult(ErrNotImplemented, 0, p, NoCoins(p))

\* Pool.JoinPool
JoinPool(p, tokensIn, swapFee) ==
    IF Len(tokensIn) = 1 THEN singleAssetJoin(p, tokensIn[1], swapFee)
    ELSE IF Len(tokensIn) # NumAssets(p) THEN PoolResult(ErrJoinShape, 0, p, NoCoins(p))
    ELSE PoolResult(ErrNotImplemented, 0, p, NoCoins(p))

\* Pool.GetTotalLpBalances: the pool's coins, in the order of their denominations.
GetTotalLpBalances(p) ==
    SelectSeq(DenomOrder, LAMBDA d : d \in PoolDenoms(p))

\* exitAmt := shareOutRatio.MulInt(asset.Amount).TruncateInt()
ExitAmt(shareOutRatio, amount) == TruncateInt(MulInt(shareOutRatio, amount))

\* The loop of Pool.ExitPool over the balances, from the i-th on: the
\* receiver, the coins collected so far and whether the loop panicked.
RECURSIVE ExitLoop(_, _, _, _, _)
exitAsset(p, exited, shareOutRatio, balances, i, denom, exitAmt) ==
    IF exitAmt <= 0
    THEN ExitLoop(p, exited, shareOutRatio, balances, i + 1)
    ELSE IF NewCoinPanics(p.bal[denom] - exitAmt)
    THEN [p |-> p, exited |-> [exited EXCEPT ![denom] = exitAmt], panicked |-> TRUE]
    ELSE ExitLoop(UpdatePoolAssetBalance(p, Coin(denom, p.bal[denom] - exitAmt)),
                  [exited EXCEPT ![denom] = exitAmt],
                  shareOutRatio, balances, i + 1)

ExitLoop(p, exited, shareOutRatio, balances, i) ==
    IF i > Len(balances) THEN [p |-> p, exited |-> exited, panicked |-> FALSE]
    ELSE exitAsset(p, exited, shareOutRatio, balances, i, balances[i],
                   ExitAmt(shareOutRatio, p.bal[balances[i]]))

\* exitingShares * (1 - exit fee), truncated; exitingShares itself at fee zero.
RefundedShares(exitingShares, exitFee) ==
    IF exitFee # 0
    THEN TruncateInt(MulInt(OneDec - exitFee, exitingShares))
    ELSE exitingShares

\* shareOutRatio := totalShares.ToDec().QuoInt(refundedShares)
ShareOutRatio(totalShares, refundedShares) == QuoInt(ToDec(totalShares), refundedShares)

\* A variant of exitPoolDone: the total shares are left as they were.
exitPoolKeepsShares(loop, totalShares, exitingShares) ==
    IF loop.panicked
    THEN PoolResult(Panic, 0, loop.p, loop.exited)
    ELSE PoolResult(nil, 0, loop.p, loop.exited)

\* Pool.ExitPool, after the loop: the total shares are reduced.
exitPoolDone(loop, totalShares, exitingShares) ==
    IF loop.panicked
    THEN PoolResult(Panic, 0, loop.p, loop.exited)
    ELSE PoolResult(nil, 0,
                    [loop.p EXCEPT !.totalShares = totalShares - exitingShares],
                    loop.exited)

\* Pool.ExitPool, once the refunded shares are known.
exitPoolRefund(p, exitingShares, refundedShares) ==
    IF refundedShares = 0
    THEN PoolResult(Panic, 0, p, NoCoins(p))
    ELSE exitPoolDone(ExitLoop(p, NoCoins(p),
                               ShareOutRatio(GetTotalShares(p), refundedShares),
                               GetTotalLpBalances(p), 1),
                      GetTotalShares(p), exitingShares)

\* Pool.ExitPool
ExitPool(p, exitingShares, exitFee) ==
    IF exitingShares >= GetTotalShares(p)
    THEN PoolResult(ErrTooManySharesOut, 0, p, NoCoins(p))
    ELSE exitPoolRefund(p, exitingShares, RefundedShares(exitingShares, exitFee))

\* ------------------------------------------------------------ the state
\* store: the pool held by the pool repository (Keeper.GetPool / SetPool).
\* res:   the call that has just returned: its inputs (active: whether the
\*        pool was inside its active window), what it returned, the
\*        collaborator calls it made, the repository before it (pre) and the
\*        in-memory pool it worked on, after it (p).  Calls are serialized:
\*        the host takes the result (Return) before it delivers the next call.
VARIABLES store, res

vars == <<store, res>>

Amounts      == 0 .. MaxAmt
Limits       == {1, 2}
ShareAmounts == 0 .. MaxShares
Fees         == {0, OneDec \div 5}
InitBals     == {1, MaxBal}

Weights2 == [d \in {"A", "B"} |-> 1]
Weights3 == [d \in {"A", "B", "C"} |-> IF d = "A" THEN 2 ELSE 1]

AllDenoms(p) == PoolDenoms(p) \cup {ForeignDenom}

NoCoin == Coin("", 0)

Record(op, err, ret, calls, pre, p, exited, tokenIn, tokenOut, limit, shares, fee, n) ==
    [op |-> op, err |-> err, ret |-> ret, calls |-> calls, pre |-> pre, p |-> p,
     exited |-> exited, tokenIn |-> tokenIn, tokenOut |-> tokenOut, limit |-> limit,
     shares |-> shares, fee |-> fee, n |-> n, active |-> TRUE]

\* No call has returned since the host took the last result.
Idle(p) == Record("none", nil, 0, <<>>, p, p, NoCoins(p), NoCoin, NoCoin, 0, 0, 0, 0)

Ready == res.op = "none"

WithinBounds(p) ==
    /\ \A d \in PoolDenoms(p) : p.bal[d] <= MaxBal
    /\ p.totalShares <= MaxShares

Init ==
    /\ \E w \in {Weights2, Weights3}, fee \in Fees, b \in InitBals :
           store = [bal |-> [d \in DOMAIN w |-> b], weight |-> w,
                    totalShares |-> MaxShares, swapFee |-> fee]
    /\ res = Idle(store)

\* A keeper call returns r: the repository is what the call left.
KeeperReturns(op, r, tokenInDenom, tokenInAmount, tokenOutDenom, tokenOutAmount, limit, active) ==
    /\ WithinBounds(r.store)
    /\ store' = r.store
    /\ res' = [Record(op, r.err, r.ret, r.calls, store, r.store, NoCoins(store),
                      Coin(tokenInDenom, IF tokenInAmount = -1 THEN r.ret ELSE tokenInAmount),
                      Coin(tokenOutDenom, IF tokenOutAmount = -1 THEN r.ret ELSE tokenOutAmount),
                      limit, 0, 0, 0)
                   EXCEPT !.active = active]

\* A pool method called on the pool loaded from the repository returns r:
\* the pool is stored again when the method returned no error.
PoolReturns(op, r, tokenIn, tokenOut, shares, fee, n) ==
    /\ WithinBounds(r.p)
    /\ store' = IF r.err = nil THEN r.p ELSE store
    /\ res' = Record(op, r.err, r.ret, <<>>, store, r.p, r.exited,
                     tokenIn, tokenOut, 0, shares, fee, n)

\* The bank is called only when the pool is active.
BankOf(active) == IF active THEN BankOutcomes ELSE {"ok"}

DoSwapExactAmountIn ==
    /\ Ready
    /\ \E din \in AllDenoms(store), dout \in AllDenoms(store), amt \in Amounts,
          min \in Limits, active \in BOOLEAN :
         \E bank \in BankOf(active) :
           KeeperReturns("SwapExactAmountIn",
               SwapExactAmountIn(store, active, Coin(din, amt), dout, min, bank),
               din, amt, dout, -1, min, active)

DoSwapExactAmountOut ==
    /\ Ready
    /\ \E din \in AllDenoms(store), dout \in AllDenoms(store), amt \in Amounts,
          max \in Limits, active \in BOOLEAN :
         \E bank \in BankOf(active) :
           KeeperReturns("SwapExactAmountOut",
               SwapExactAmountOut(store, active, din, max, Coin(dout, amt), bank),
               din, -1, dout, amt, max, active)

DoApplySwap ==
    /\ Ready
    /\ \E din \in AllDenoms(store), dout \in AllDenoms(store),
          ain \in Amounts, aout \in Amounts :
           PoolReturns("ApplySwap",
               ApplySwap(store, <<Coin(din, ain)>>, <<Coin(dout, aout)>>),
               Coin(din, ain), Coin(dout, aout), 0, 0, 1)

\* The coin sets a join is called with: none, one coin, or the first two or
\* three denominations.
JoinInputs(p) ==
    {<<>>} \cup {<<Coin(d, amt)>> : d \in AllDenoms(p), amt \in Amounts}
           \cup {<<Coin("A", 1), Coin("B", 1)>>,
                 <<Coin("A", 1), Coin("B", 1), Coin("C", 1)>>}

DoJoinPool ==
    /\ Ready
    /\ \E tokensIn \in JoinInputs(store), fee \in Fees :
           PoolReturns("JoinPool", JoinPool(store, tokensIn, fee),
               IF Len(tokensIn) = 1 THEN tokensIn[1] ELSE NoCoin, NoCoin,
               0, fee, Len(tokensIn))

DoExitPool ==
    /\ Ready
    /\ \E exitingShares \in ShareAmounts, fee \in Fees :
           PoolReturns("ExitPool", ExitPool(store, exitingShares, fee),
               NoCoin, NoCoin, exitingShares, fee, 0)

\* The outcome of a calculator of the pool: the error returned, the amount
\* returned (an sdk.Dec) and the calls made.
CallSolve == "solveConstantFunctionInvariant"

CalcResult(err, ret, calls) == [err |-> err, ret |-> ret, calls |-> calls]

\* Pool.CalcInAmtGivenOut as called: parsePoolAssets fails on a
\* denomination that is no asset of the pool; otherwise the solver is called
\* with the out-balance less the amount out, whatever its sign.
calcInAmtGivenOutCall(p, tokenOut, tokenInDenom, swapFee) ==
    IF ~HasPoolAsset(p, tokenOut.denom) \/ ~HasPoolAsset(p, tokenInDenom)
    THEN CalcResult(ErrDenomNotFound, 0, <<>>)
    ELSE IF CalcInAmtGivenOutPanics(p, tokenOut, tokenInDenom, swapFee)
    THEN CalcResult(Panic, 0, <<CallSolve>>)
    ELSE CalcResult(nil, CalcInAmtGivenOut(p, tokenOut, tokenInDenom, swapFee), <<CallSolve>>)

\* A calculator called on the pool loaded from the repository returns r:
\* nothing is written.
CalcReturns(op, r, tokenIn, tokenOut, fee) ==
    /\ UNCHANGED store
    /\ res' = Record(op, r.err, r.ret, r.calls, store, store, NoCoins(store),
                     tokenIn, tokenOut, 0, 0, fee, 1)

DoCalcInAmtGivenOut ==
    /\ Ready
    /\ \E din \in AllDenoms(store), dout \in AllDenoms(store), amt \in Amounts,
          fee \in Fees :
           CalcReturns("CalcInAmtGivenOut",
               calcInAmtGivenOutCall(store, Coin(dout, amt), din, fee),
               Coin(din, 0), Coin(dout, amt), fee)

\* The host takes the result of the call that returned.
Return ==
    /\ ~Ready
    /\ res' = Idle(store)
    /\ UNCHANGED store

Next ==
    \/ DoSwapExactAmountIn
    \/ DoSwapExactAmountOut
    \/ DoApplySwap
    \/ DoJoinPool
    \/ DoExitPool
    \/ DoCalcInAmtGivenOut
    \/ Return

Spec == Init /\ [][Next]_vars

\* ------------------------------------------- one swap on a deeper pool
\* A second specification: the pool of two equally weighted assets with
\* balances up to MaxPoolBal, and one exact-in swap on it.
MaxPoolBal == 50

PoolBals == 1 .. MaxPoolBal

\* sdk.SmallestDec(): the smallest positive sdk.Dec, one unit of 10^-Precision.
SmallestDec == 1

\* The swap fees of the deeper pool: those of Fees and the smallest one.
SwapFees == Fees \cup {SmallestDec}

SwapInit ==
    /\ \E a \in PoolBals, b \in PoolBals, fee \in SwapFees :
           store = [bal |-> [d \in {"A", "B"} |-> IF d = "A" THEN a ELSE b],
                    weight |-> Weights2, totalShares |-> MaxShares, swapFee |-> fee]
    /\ res = Idle(store)

\* A keeper call on the deeper pool returns r.
DeepKeeperReturns(op, r, tokenIn, tokenOutDenom, limit) ==
    /\ store' = r.store
    /\ res' = Record(op, r.err, r.ret, r.calls, store, r.store, NoCoins(store),
                     tokenIn, Coin(tokenOutDenom, r.ret), limit, 0, 0, 0)

DoDeepSwapExactAmountIn ==
    /\ Ready
    /\ \E din \in PoolDenoms(store), dout \in PoolDenoms(store), amt \in 1 .. MaxAmt,
          bank \in BankOutcomes :
           DeepKeeperReturns("SwapExactAmountIn",
               SwapExactAmountIn(store, TRUE, Coin(din, amt), dout, 1, bank),
               Coin(din, amt), dout, 1)

SwapNext == DoDeepSwapExactAmountIn

SwapSpec == SwapInit /\ [][SwapNext]_vars

\* ------------------------------------------------------------ properties
SwapOps == {"SwapExactAmountIn", "SwapExactAmountOut"}

Count(seq, x) == Cardinality({i \in DOMAIN seq : seq[i] = x})
IndexOf(seq, x) == CHOOSE i \in DOMAIN seq : seq[i] = x

C2_BalancesNonNegative ==
    /\ \A d \in PoolDenoms(store) : store.bal[d] >= 0 /\ store.weight[d] > 0
    /\ store.weight = res.pre.weight
    /\ store.weight \in {Weights2, Weights3}

\* A successful swap through the keeper on a pool that a successful exit
\* has reduced before.
C2_Witness ==
    /\ res.op = "SwapExactAmountIn"
    /\ res.err = nil
    /\ store.totalShares < MaxShares
    /\ \E d \in PoolDenoms(store) : store.bal[d] = 0

ValidationErrors ==
    {ErrSameDenom, ErrDenomNotFound, ErrPoolLocked, ErrTooManyTokensOut,
     ErrInvalidMathApprox, ErrLimitMinAmount, ErrLimitMaxAmount,
     ErrTooManySharesOut, ErrJoinShape, ErrNotImplemented, ErrCoinsLength}

\* C3: a call that fails in validation or computation returns before
\* anything is staged: the pool it worked on and the stored pool are as
\* before the call, and no collaborator (repository, bank) was called.
C3_ValidationFailureNoEffect ==
    (res.op # "none" /\ res.err \in ValidationErrors) =>
        /\ store = res.pre
        /\ res.p = res.pre
        /\ res.calls = <<>>
        /\ res.ret = 0

\* An exact-in swap whose computed amount is positive and below the minimum.
C3_Witness ==
    /\ res.op = "SwapExactAmountIn"
    /\ res.err = ErrLimitMinAmount
    /\ res.tokenIn.amount > 0

SwapInComputes ==
    /\ res.op = "SwapExactAmountIn"
    /\ res.err \in {nil, ErrSendCoins, ErrInvalidMathApprox, ErrLimitMinAmount}

\* The amount an exact-in call computes.
SwapInComputed ==
    TruncateInt(CalcOutAmtGivenIn(res.pre, res.tokenIn, res.tokenOut.denom,
                                  GetPoolSwapFee(res.pre)))

C6_CallOrder ==
    /\ (res.op \in SwapOps /\ res.err = nil) =>
           /\ Count(res.calls, CallSetPool) = 1
           /\ Count(res.calls, CallSendIn) = 1
           /\ Count(res.calls, CallSendOut) = 1
           /\ Count(res.calls, CallAfterSwap) = 1
           /\ IndexOf(res.calls, CallSetPool) < IndexOf(res.calls, CallSendIn)
           /\ IndexOf(res.calls, CallSendIn) < IndexOf(res.calls, CallSendOut)
           /\ IndexOf(res.calls, CallSendOut) < IndexOf(res.calls, CallAfterSwap)
    /\ (res.op \in SwapOps /\ res.err # nil) =>
           Count(res.calls, CallAfterSwap) = 0

\* A committed swap: both transfers and the hook were called.
C6_Witness ==
    /\ res.op = "SwapExactAmountIn"
    /\ res.err = nil
    /\ Count(res.calls, CallAfterSwap) = 1
    /\ Count(res.calls, CallSendOut) = 1

\* C7: an exit of the total shares or more fails with ErrTooManySharesOut
\* and changes nothing; an exit of the total shares less one succeeds and
\* returns a nonzero amount of every asset with a positive balance.
C7_ExitBoundary ==
    /\ (res.op = "ExitPool" /\ res.shares >= res.pre.totalShares) =>
           /\ res.err = ErrTooManySharesOut
           /\ res.p = res.pre
           /\ store = res.pre
    /\ (res.op = "ExitPool" /\ res.shares = res.pre.totalShares - 1) =>
           /\ res.err = nil
           /\ \A d \in PoolDenoms(res.pre) : res.pre.bal[d] > 0 => res.exited[d] > 0

\* C8: an exit with a fee returns of no asset more than the exit of the
\* same shares from the same pool without a fee.
C8_ExitMonotonic ==
    (res.op = "ExitPool" /\ res.err = nil /\ res.fee > 0) =>
        /\ ExitPool(res.pre, res.shares, 0).err = nil
        /\ \A d \in PoolDenoms(res.pre) :
               res.exited[d] <= ExitPool(res.pre, res.shares, 0).exited[d]

\* A successful exit with a fee that returns coins.
C8_Witness ==
    /\ res.op = "ExitPool"
    /\ res.err = nil
    /\ res.fee > 0
    /\ \E d \in PoolDenoms(res.pre) : res.exited[d] > 0

\* C9: a successful exit reduces the total shares by exactly the exiting
\* shares, and the total shares of the stored pool stay positive.
C9_SharesReduced ==
    /\ (res.op = "ExitPool" /\ res.err = nil) =>
           /\ res.p.totalShares = res.pre.totalShares - res.shares
           /\ store.totalShares = res.pre.totalShares - res.shares
    /\ store.totalShares > 0

\* A successful exit with a fee: fewer shares are refunded than exit.
C9_Witness ==
    /\ res.op = "ExitPool"
    /\ res.err = nil
    /\ RefundedShares(res.shares, res.fee) < res.shares

\* C10: a join with one coin is the single-asset join; a join with as many
\* coins as the pool has assets fails with ErrNotImplemented; a join with
\* any other number of coins fails with ErrJoinShape; both failures return
\* zero shares and leave the pool as it was.
C10_JoinDispatch ==
    /\ (res.op = "JoinPool" /\ res.n = 1) =>
           /\ res.err = singleAssetJoin(res.pre, res.tokenIn, res.fee).err
           /\ res.ret = singleAssetJoin(res.pre, res.tokenIn, res.fee).ret
    /\ (res.op = "JoinPool" /\ res.n # 1 /\ res.n = NumAssets(res.pre)) =>
           /\ res.err = ErrNotImplemented
           /\ res.ret = 0
           /\ res.p = res.pre
           /\ store = res.pre
    /\ (res.op = "JoinPool" /\ res.n # 1 /\ res.n # NumAssets(res.pre)) =>
           /\ res.err = ErrJoinShape
           /\ res.ret = 0
           /\ res.p = res.pre
           /\ store = res.pre

\* A join with two coins on the pool of three assets.
C10_Witness ==
    /\ res.op = "JoinPool"
    /\ res.n = 2
    /\ NumAssets(res.pre) = 3
    /\ res.err = ErrJoinShape

\* C11: a successful join with one coin mints the shares it returns and
\* takes the deposit into the pool: the total shares grow by the shares
\* returned, the balance of the deposited asset grows by the deposit, and
\* the other balances are unchanged.
C11_JoinMutatesPool ==
    (res.op = "JoinPool" /\ res.n = 1 /\ res.err = nil) =>
        /\ res.p.totalShares = res.pre.totalShares + res.ret
        /\ res.p.bal[res.tokenIn.denom] = res.pre.bal[res.tokenIn.denom] + res.tokenIn.amount
        /\ \A d \in PoolDenoms(res.pre) \ {res.tokenIn.denom} : res.p.bal[d] = res.pre.bal[d]
        /\ store = res.p

\* The shares a join with one coin computes, where the computation is defined.
JoinComputes ==
    /\ res.op = "JoinPool"
    /\ res.n = 1
    /\ res.err \in {nil, ErrInvalidMathApprox}

JoinComputed ==
    TruncateInt(calcPoolOutGivenSingleIn(
        ToDec(res.pre.bal[res.tokenIn.denom]),
        DecQuo(ToDec(res.pre.weight[res.tokenIn.denom]), ToDec(GetTotalWeight(res.pre))),
        ToDec(GetTotalShares(res.pre)), ToDec(res.tokenIn.amount), res.fee))

\* C12: a join with one coin never succeeds with a share amount that is not
\* positive: when the truncated share amount is zero or negative the join
\* fails with ErrInvalidMathApprox.
C12_JoinSharesPositive ==
    /\ (res.op = "JoinPool" /\ res.n = 1 /\ res.err = nil) => res.ret > 0
    /\ (JoinComputes /\ JoinComputed <= 0) => res.err = ErrInvalidMathApprox

\* The weighted invariant of a pool, raised to the total weight: the product
\* of the balances, each to the power of its weight.
RECURSIVE IntPower(_, _)
IntPower(b, n) == IF n = 0 THEN 1 ELSE b * IntPower(b, n - 1)

RECURSIVE InvariantOver(_, _)
InvariantOver(p, ds) ==
    IF ds = {} THEN 1
    ELSE LET d == CHOOSE e \in ds : TRUE
         IN IntPower(p.bal[d], p.weight[d]) * InvariantOver(p, ds \ {d})

InvariantValue(p) == InvariantOver(p, PoolDenoms(p))

\* C13: a committed swap does not lower the weighted invariant of the
\* stored pool, truncation of the computed amount included, and leaves it
\* equal only when the swap fee is zero.
C13_InvariantNonDecreasing ==
    (res.op \in SwapOps /\ res.err = nil /\ InvariantValue(res.pre) > 0) =>
        /\ InvariantValue(store) >= InvariantValue(res.pre)
        /\ (InvariantValue(store) = InvariantValue(res.pre)) => res.pre.swapFee = 0

\* The swap back: the amount a committed exact-in swap returned, swapped
\* into the asset it was paid with, on the pool the swap left.
SwapBack ==
    SwapExactAmountIn(store, TRUE, Coin(res.tokenOut.denom, res.ret),
                      res.tokenIn.denom, 1, "ok")

\* C14: swapping an amount into another asset and the amount received
\* straight back returns at most the amount first paid, and exactly that
\* amount only when the swap fee is zero.
C14_RoundTripLoss ==
    (res.op = "SwapExactAmountIn" /\ res.err = nil /\ SwapBack.err = nil) =>
        /\ SwapBack.ret <= res.tokenIn.amount
        /\ (SwapBack.ret = res.tokenIn.amount) => res.pre.swapFee = 0

\* The exact-out call got as far as computing the amount.
SwapOutComputes ==
    /\ res.op = "SwapExactAmountOut"
    /\ res.err \in {nil, ErrSendCoins, ErrInvalidMathApprox, ErrLimitMaxAmount}

\* The amount an exact-out call computes.
SwapOutComputed ==
    TruncateInt(CalcInAmtGivenOut(res.pre, res.tokenOut, res.tokenIn.denom,
                                  GetPoolSwapFee(res.pre)))

\* C15: the amount in that the exact-out path computes for a requested
\* amount out below the out-balance, given to the exact-in path on the same
\* pool, yields at least the requested amount out.
C15_InOutConsistent ==
    (SwapOutComputes /\ res.tokenOut.amount > 0) =>
        /\ SwapOutComputed > 0
        /\ ~CalcOutAmtGivenInPanics(res.pre, Coin(res.tokenIn.denom, SwapOutComputed),
                                    res.tokenOut.denom, GetPoolSwapFee(res.pre))
        /\ TruncateInt(CalcOutAmtGivenIn(res.pre, Coin(res.tokenIn.denom, SwapOutComputed),
                                         res.tokenOut.denom, GetPoolSwapFee(res.pre)))
               >= res.tokenOut.amount

\* C16: Pool.CalcInAmtGivenOut fails with an error, and does not call the
\* solver, whenever the amount out is not below the pool's balance of the
\* out asset, that is whenever the out-balance after the swap would not be
\* positive.
C16_CalcInRejectsDrain ==
    (/\ res.op = "CalcInAmtGivenOut"
     /\ HasPoolAsset(res.pre, res.tokenOut.denom)
     /\ HasPoolAsset(res.pre, res.tokenIn.denom)
     /\ res.tokenOut.amount >= res.pre.bal[res.tokenOut.denom]) =>
        /\ res.err \notin {nil, Panic}
        /\ Count(res.calls, CallSolve) = 0

\* The exact-out call got past the checks of the denominations and of the
\* active window.
SwapOutValidated ==
    /\ res.op = "SwapExactAmountOut"
    /\ res.tokenIn.denom # res.tokenOut.denom
    /\ HasPoolAsset(res.pre, res.tokenIn.denom)
    /\ HasPoolAsset(res.pre, res.tokenOut.denom)
    /\ res.active

\* C17: an exact-out request for an amount that is not below the pool's
\* balance of the asset is rejected with ErrTooManyTokensOut, before the
\* amount in is computed and with nothing written, and only such requests
\* are; so a successful exact-out swap leaves no positive balance at zero.
C17_TooManyTokensOut ==
    /\ (SwapOutValidated /\ res.tokenOut.amount >= res.pre.bal[res.tokenOut.denom]) =>
           /\ res.err = ErrTooManyTokensOut
           /\ res.calls = <<>>
           /\ store = res.pre
    /\ (res.op = "SwapExactAmountOut" /\ res.err = ErrTooManyTokensOut) =>
           (SwapOutValidated /\ res.tokenOut.amount >= res.pre.bal[res.tokenOut.denom])
    /\ (res.op = "SwapExactAmountOut" /\ res.err = nil) =>
           \A d \in PoolDenoms(res.pre) : res.pre.bal[d] > 0 => store.bal[d] > 0

\* An exact-out request for the whole positive balance of an asset is
\* rejected.
C17_Witness ==
    /\ SwapOutValidated
    /\ res.pre.bal[res.tokenOut.denom] > 0
    /\ res.tokenOut.amount = res.pre.bal[res.tokenOut.denom]
    /\ res.err = ErrTooManyTokensOut

\* C18: both swaps reject a request with the same denomination in and out
\* first, before the pool is loaded (whatever the denomination and the
\* pool's window), and reject a request on a pool outside its active window
\* before any amount is computed; neither writes or calls anything.
C18_ValidationOrder ==
    /\ (res.op \in SwapOps /\ res.tokenIn.denom = res.tokenOut.denom) =>
           /\ res.err = ErrSameDenom
           /\ res.calls = <<>>
           /\ store = res.pre
    /\ (/\ res.op \in SwapOps
        /\ res.tokenIn.denom # res.tokenOut.denom
        /\ HasPoolAsset(res.pre, res.tokenIn.denom)
        /\ HasPoolAsset(res.pre, res.tokenOut.denom)
        /\ ~res.active) =>
           /\ res.err = ErrPoolLocked
           /\ res.calls = <<>>
           /\ store = res.pre

\* A request with the same denomination in and out, which is no asset of
\* the pool, on a pool outside its active window.
C18_Witness ==
    /\ res.op \in SwapOps
    /\ res.tokenIn.denom = res.tokenOut.denom
    /\ ~HasPoolAsset(res.pre, res.tokenIn.denom)
    /\ ~res.active
    /\ res.err = ErrSameDenom

\* C19: an exit of fewer shares than the total, at a fee in [0,1), never
\* faults on the division of the total shares by the refunded shares, also
\* when the exiting shares are 0 or the refunded shares truncate to 0.
C19_ExitNeverDividesByZero ==
    (/\ res.op = "ExitPool"
     /\ res.shares >= 0
     /\ res.shares < res.pre.totalShares
     /\ res.fee >= 0
     /\ res.fee < OneDec) =>
        ~(res.err = Panic /\ RefundedShares(res.shares, res.fee) = 0)

====
